---- MODULE Spec2Model ----
(***************************************************************************)
(* Merton structural credit model: calibration gate, option-pricing       *)
(* primitives and risk measures of naive_model/, with the drivers that    *)
(* call them.                                                             *)
(*                                                                        *)
(* Floating-point values are modelled as a small binary64 look-alike: a   *)
(* finite value is an integer count of 1/SCALE units, magnitudes above    *)
(* MaxFloat overflow to +-inf, and NaN is a value of its own.  A raised   *)
(* Python exception is carried as a value too, so that an operator can    *)
(* say "this expression raises".  Signed zeros are not modelled.          *)
(***************************************************************************)
EXTENDS Integers, Sequences, FiniteSets, TLC

\* ------------------------------------------------------------------------
\* The float format of the model
\* ------------------------------------------------------------------------

\* units per 1.0 (the resolution of a finite value)
SCALE == 40000

\* largest finite magnitude, in whole units of 1.0 (stands for DBL_MAX)
MaxFloat == 1000

MaxUnits == MaxFloat * SCALE

Num(n) == [k |-> "num", v |-> n]

NaN == [k |-> "nan", v |-> 0]

PosInf == [k |-> "inf", v |-> 1]

NegInf == [k |-> "inf", v |-> -1]

ZeroDivisionError == [k |-> "ZeroDivisionError", v |-> 0]

OverflowError == [k |-> "OverflowError", v |-> 0]

IsNum(x) == x.k = "num"

IsNaN(x) == x.k = "nan"

IsInf(x) == x.k = "inf"

IsRaise(x) == x.k \in {"ZeroDivisionError", "OverflowError"}

Zero == Num(0)

One == Num(SCALE)

\* n whole units of 1.0
Whole(n) == Num(n * SCALE)

\* p/q as a finite value (p, q small integers, q > 0)
Frac(p, q) == Num((p * SCALE) \div q)

\* rounding of an exact result to the format: overflow goes to +-inf
Norm(n) == IF n > MaxUnits THEN PosInf ELSE IF n < -MaxUnits THEN NegInf ELSE Num(n)

Abs(n) == IF n < 0 THEN -n ELSE n

SignOf(n) == IF n > 0 THEN 1 ELSE IF n < 0 THEN -1 ELSE 0

\* sign of a non-NaN value
Sgn(x) == IF IsInf(x) THEN x.v ELSE SignOf(x.v)

\* a Python int of value n: exact, with no largest value
PyInt(n) == [k |-> "int", v |-> n]

IsInt(x) == x.k = "int"

\* position of a non-NaN value on the extended real line
Key(x) ==
    IF IsInf(x) THEN x.v * (2 ^ 30)
    ELSE IF IsInt(x) THEN x.v * SCALE
    ELSE x.v

\* IEEE comparisons: every ordered comparison with NaN is false
FLt(a, b) == ~IsNaN(a) /\ ~IsNaN(b) /\ Key(a) < Key(b)

FLe(a, b) == ~IsNaN(a) /\ ~IsNaN(b) /\ Key(a) <= Key(b)

FGt(a, b) == FLt(b, a)

FGe(a, b) == FLe(b, a)

FEq(a, b) == ~IsNaN(a) /\ ~IsNaN(b) /\ Key(a) = Key(b)

FNeg(a) ==
    IF IsRaise(a) \/ IsNaN(a) THEN a
    ELSE IF IsInf(a) THEN [k |-> "inf", v |-> -a.v]
    ELSE Num(-a.v)

FAdd(a, b) ==
    IF IsRaise(a) THEN a
    ELSE IF IsRaise(b) THEN b
    ELSE IF IsNaN(a) \/ IsNaN(b) THEN NaN
    ELSE IF IsInf(a) /\ IsInf(b) THEN (IF a.v = b.v THEN a ELSE NaN)
    ELSE IF IsInf(a) THEN a
    ELSE IF IsInf(b) THEN b
    ELSE Norm(a.v + b.v)

FSub(a, b) == FAdd(a, FNeg(b))

\* <<floor(x*m/b), (x*m) % b>> for 0 <= x < b, m >= 0, without forming x*m
\* (TLC's integers are 32 bits wide)
RECURSIVE MulDivMod(_, _, _)
MulDivMod(x, m, b) ==
    IF m = 0 THEN <<0, 0>>
    ELSE LET h == MulDivMod(x, m \div 2, b)
             t == 2 * h[2] + x * (m % 2)
         IN  <<2 * h[1] + t \div b, t % b>>

\* floor(a*b/SCALE) for magnitudes 0 <= a, b <= MaxUnits, in 32-bit steps;
\* MaxUnits + 1 when the product overflows the format
MulMag(a, b) ==
    LET ah == a \div SCALE
        al == a % SCALE
        bh == b \div SCALE
        bl == b % SCALE
    IN  IF ah * bh > MaxFloat THEN MaxUnits + 1
        ELSE ah * bh * SCALE + ah * bl + al * bh + (al * bl) \div SCALE

\* floor(a*SCALE/b) for magnitudes a >= 0, b > 0; MaxUnits + 1 on overflow
DivMag(a, b) ==
    LET q == a \div b
    IN  IF q > MaxFloat THEN MaxUnits + 1
        ELSE q * SCALE + MulDivMod(a % b, SCALE, b)[1]

FMul(a, b) ==
    IF IsRaise(a) THEN a
    ELSE IF IsRaise(b) THEN b
    ELSE IF IsNaN(a) \/ IsNaN(b) THEN NaN
    ELSE IF IsInf(a) \/ IsInf(b)
         THEN (IF Sgn(a) * Sgn(b) = 0 THEN NaN
               ELSE [k |-> "inf", v |-> Sgn(a) * Sgn(b)])
    ELSE Norm(Sgn(a) * Sgn(b) * MulMag(Abs(a.v), Abs(b.v)))

\* numpy float64 division: x/0 is +-inf or NaN (with a warning), never raises
NpDiv(a, b) ==
    IF IsRaise(a) THEN a
    ELSE IF IsRaise(b) THEN b
    ELSE IF IsNaN(a) \/ IsNaN(b) THEN NaN
    ELSE IF IsInf(a) /\ IsInf(b) THEN NaN
    ELSE IF IsInf(a) THEN [k |-> "inf", v |-> a.v * (IF Sgn(b) < 0 THEN -1 ELSE 1)]
    ELSE IF IsInf(b) THEN Zero
    ELSE IF b.v = 0 THEN (IF a.v = 0 THEN NaN ELSE [k |-> "inf", v |-> Sgn(a)])
    ELSE Norm(Sgn(a) * Sgn(b) * DivMag(Abs(a.v), Abs(b.v)))

\* Python float division: a zero divisor raises ZeroDivisionError
PyDiv(a, b) ==
    IF IsRaise(a) THEN a
    ELSE IF IsRaise(b) THEN b
    ELSE IF IsNum(b) /\ b.v = 0 THEN ZeroDivisionError
    ELSE NpDiv(a, b)

\* x / y as the operand types decide it: np is TRUE when an operand is a
\* numpy float64, FALSE when both are Python floats
FDiv(np, a, b) == IF np THEN NpDiv(a, b) ELSE PyDiv(a, b)

\* x ** 2: a Python float raises OverflowError when the square overflows,
\* a numpy float64 gives inf
FSquare(np, a) ==
    LET sq == FMul(a, a)
    IN  IF ~np /\ IsNum(a) /\ IsInf(sq) THEN OverflowError ELSE sq

\* float(n) of a Python int in mixed arithmetic: OverflowError when n is
\* beyond the largest float
ToFloat(x) ==
    IF IsInt(x)
    THEN (IF Abs(x.v) > MaxFloat THEN OverflowError ELSE Num(x.v * SCALE))
    ELSE x

\* a + b and a * b in Python: exact on two ints, float arithmetic otherwise
PyAdd(a, b) ==
    IF IsInt(a) /\ IsInt(b) THEN PyInt(a.v + b.v) ELSE FAdd(ToFloat(a), ToFloat(b))

PyMul(a, b) ==
    IF IsInt(a) /\ IsInt(b) THEN PyInt(a.v * b.v) ELSE FMul(ToFloat(a), ToFloat(b))

\* a / b on two Python ints: the quotient as a float, OverflowError when it
\* is too large for a float
IntTrueDiv(a, b) ==
    IF b.v = 0 THEN ZeroDivisionError
    ELSE LET q == Abs(a.v) \div Abs(b.v)
         IN  IF q > MaxFloat THEN OverflowError
             ELSE Num(SignOf(a.v) * SignOf(b.v)
                      * (q * SCALE + MulDivMod(Abs(a.v) % Abs(b.v), SCALE, Abs(b.v))[1]))

\* a / b in Python
PyTrueDiv(np, a, b) ==
    IF IsInt(a) /\ IsInt(b) THEN IntTrueDiv(a, b) ELSE FDiv(np, ToFloat(a), ToFloat(b))

\* ------------------------------------------------------------------------
\* numpy / scipy elementary functions
\* ------------------------------------------------------------------------

\* e, ln 2 in units
EUnits == 2 * SCALE + MulDivMod(7183, SCALE, 10000)[1]

Ln2Units == MulDivMod(6931, SCALE, 10000)[1]

\* sum of the Taylor series of e^f from term i on, f in [0, SCALE)
RECURSIVE ExpSeries(_, _, _)
ExpSeries(f, term, i) ==
    IF term = 0 \/ i > 12 THEN 0
    ELSE term + ExpSeries(f, MulMag(term, f) \div i, i + 1)

\* e^k * m for k >= 0 multiplications by e; saturates at MaxUnits + 1
RECURSIVE ExpScale(_, _)
ExpScale(m, k) ==
    IF k = 0 \/ m > MaxUnits THEN m
    ELSE ExpScale(MulMag(m, EUnits), k - 1)

\* e^(n/SCALE) for n >= 0, in units; MaxUnits + 1 on overflow
ExpMag(n) == ExpScale(ExpSeries(n % SCALE, SCALE, 1), n \div SCALE)

\* np.exp
FExp(a) ==
    IF IsRaise(a) \/ IsNaN(a) THEN a
    ELSE IF IsInf(a) THEN (IF a.v > 0 THEN PosInf ELSE Zero)
    ELSE IF a.v >= 0 THEN Norm(ExpMag(a.v))
    ELSE LET e == ExpMag(-a.v)
         IN  IF e > MaxUnits THEN Zero ELSE Num(DivMag(SCALE, e))

\* m in [SCALE, 2*SCALE): 2*atanh((m-1)/(m+1)) by its series
LnSeries(m) ==
    LET z  == DivMag(m - SCALE, m + SCALE)
        z2 == MulMag(z, z)
        z3 == MulMag(z, z2)
        z5 == MulMag(z3, z2)
        z7 == MulMag(z5, z2)
    IN  2 * (z + z3 \div 3 + z5 \div 5 + z7 \div 7)

\* ln(m/SCALE) for m > 0, in units, by halving or doubling into [1, 2)
RECURSIVE LnMag(_)
LnMag(m) ==
    IF m >= 2 * SCALE THEN Ln2Units + LnMag(m \div 2)
    ELSE IF m < SCALE THEN LnMag(2 * m) - Ln2Units
    ELSE LnSeries(m)

\* np.log: log(0) = -inf, log(x < 0) = NaN (warnings, no exception)
FLog(a) ==
    IF IsRaise(a) \/ IsNaN(a) THEN a
    ELSE IF IsInf(a) THEN (IF a.v > 0 THEN PosInf ELSE NaN)
    ELSE IF a.v < 0 THEN NaN
    ELSE IF a.v = 0 THEN NegInf
    ELSE Num(LnMag(a.v))

\* y*y <= x*SCALE, decided without forming either product
SqLe(y, x) ==
    LET q == MulMag(y, y)
    IN  q < x \/ (q = x /\ ((y % SCALE) * (y % SCALE)) % SCALE = 0)

\* largest y in lo..hi with y*y <= x*SCALE (lo satisfies it)
RECURSIVE SqrtSearch(_, _, _)
SqrtSearch(x, lo, hi) ==
    IF lo >= hi THEN lo
    ELSE LET mid == (lo + hi + 1) \div 2
         IN  IF SqLe(mid, x) THEN SqrtSearch(x, mid, hi) ELSE SqrtSearch(x, lo, mid - 1)

\* np.sqrt: sqrt(x < 0) = NaN
FSqrt(a) ==
    IF IsRaise(a) \/ IsNaN(a) THEN a
    ELSE IF IsInf(a) THEN (IF a.v > 0 THEN PosInf ELSE NaN)
    ELSE IF a.v < 0 THEN NaN
    ELSE Num(SqrtSearch(a.v, 0, MaxUnits))

\* Phi(i/10) for i = 0..40, in 1/10000
PhiTable ==
    << 5000, 5398, 5793, 6179, 6554, 6915, 7257, 7580, 7881, 8159,
       8413, 8643, 8849, 9032, 9192, 9332, 9452, 9554, 9641, 9713,
       9772, 9821, 9861, 9893, 9918, 9938, 9953, 9965, 9974, 9981,
       9987, 9990, 9993, 9995, 9997, 9998, 9998, 9999, 9999, 10000, 10000 >>

\* Phi(n/SCALE) for n >= 0, in units: the table, linearly interpolated
PhiMag(n) ==
    LET step == SCALE \div 10
        i    == n \div step
    IN  IF i >= 40 THEN SCALE
        ELSE LET lo == PhiTable[i + 1]
                 hi == PhiTable[i + 2]
             IN  (((lo * step + (hi - lo) * (n % step)) \div step) * SCALE) \div 10000

\* scipy.stats.norm.cdf
FCdf(a) ==
    IF IsRaise(a) \/ IsNaN(a) THEN a
    ELSE IF IsInf(a) THEN (IF a.v > 0 THEN One ELSE Zero)
    ELSE IF a.v >= 0 THEN Num(PhiMag(a.v))
    ELSE Num(SCALE - PhiMag(-a.v))

\* ------------------------------------------------------------------------
\* naive_model/model.py
\* ------------------------------------------------------------------------

Two == Whole(2)

\* Python's max(0, x): x only when x > 0 compares true, so max(0, nan) is 0
PyMax0(x) == IF IsRaise(x) THEN x ELSE IF FGt(x, Zero) THEN x ELSE Zero

\* d1 = (np.log(S/K) + (r + (sigma**2)/2) * T) / (sigma * np.sqrt(T))
D1(np, S, K, T, r, sigma) ==
    NpDiv(FAdd(FLog(FDiv(np, S, K)),
               FMul(FAdd(r, NpDiv(FSquare(np, sigma), Two)), T)),
          FMul(sigma, FSqrt(T)))

\* mutant: the strike test made before the other edge cases
black_scholes_call_StrikeFirst(np, S, K, T, r, sigma) ==
    IF FLe(K, Zero) THEN S
    ELSE IF FLe(S, Zero) \/ FLe(sigma, Zero) \/ FLe(T, Zero) THEN Zero
    ELSE LET d1 == D1(np, S, K, T, r, sigma)
             d2 == FSub(d1, FMul(sigma, FSqrt(T)))
             call_price == FSub(FMul(S, FCdf(d1)),
                                FMul(FMul(K, FExp(FMul(FNeg(r), T))), FCdf(d2)))
         IN  PyMax0(call_price)

black_scholes_call(np, S, K, T, r, sigma) ==
    IF FLe(S, Zero) \/ FLe(sigma, Zero) \/ FLe(T, Zero) THEN Zero
    ELSE IF FLe(K, Zero) THEN S
    ELSE LET d1 == D1(np, S, K, T, r, sigma)
             d2 == FSub(d1, FMul(sigma, FSqrt(T)))
             call_price == FSub(FMul(S, FCdf(d1)),
                                FMul(FMul(K, FExp(FMul(FNeg(r), T))), FCdf(d2)))
         IN  PyMax0(call_price)

black_scholes_delta(np, S, K, T, r, sigma) ==
    IF FLe(S, Zero) \/ FLe(sigma, Zero) \/ FLe(T, Zero) \/ FLe(K, Zero) THEN Zero
    ELSE FCdf(D1(np, S, K, T, r, sigma))

\* ------------------------------------------------------------------------
\* naive_model/risk_measures.py
\* ------------------------------------------------------------------------

\* expected_V_T = V * np.exp(r * T)
ExpectedVT(V, T, r) == FMul(V, FExp(FMul(r, T)))

\* std_V_T = V * np.exp(r * T) * np.sqrt(np.exp((sigma_V ** 2) * T) - 1)
StdVT(np, V, T, r, sigma_V) ==
    FMul(FMul(V, FExp(FMul(r, T))),
         FSqrt(FSub(FExp(FMul(FSquare(np, sigma_V), T)), One)))

\* The value is the float returned, or the exception the call raises.
distance_to_default(np, V, D, T, r, sigma_V) ==
    IF FLe(V, Zero) \/ FLe(sigma_V, Zero) \/ FLe(T, Zero) \/ FLe(D, Zero) THEN NaN
    ELSE LET expected_V_T == ExpectedVT(V, T, r)
             std_V_T == StdVT(np, V, T, r, sigma_V)
         IN  IF IsRaise(std_V_T) THEN std_V_T
             ELSE IF FEq(std_V_T, Zero) THEN NaN
             ELSE NpDiv(FSub(expected_V_T, D), std_V_T)

\* d2 of default_probability
PdD2(np, V, D, T, r, sigma_V) ==
    NpDiv(FAdd(FLog(FDiv(np, V, D)),
               FMul(FSub(r, NpDiv(FSquare(np, sigma_V), Two)), T)),
          FMul(sigma_V, FSqrt(T)))

default_probability(np, V, D, T, r, sigma_V) ==
    FCdf(FNeg(PdD2(np, V, D, T, r, sigma_V)))

\* The dict returned, or (kind "raise") the exception of the first call that raises
compute_risk_measures(np, V, D, T, r, sigma_V) ==
    LET DD == distance_to_default(np, V, D, T, r, sigma_V)
        PD == default_probability(np, V, D, T, r, sigma_V)
    IN  IF IsRaise(DD) THEN [kind |-> "raise", exc |-> DD.k]
        ELSE IF IsRaise(PD) THEN [kind |-> "raise", exc |-> PD.k]
        ELSE [kind |-> "dict", DD |-> DD, PD |-> PD]

\* what a call returning one float hands to its caller
FloatResult(x) ==
    IF IsRaise(x) THEN [kind |-> "raise", exc |-> x.k] ELSE [kind |-> "float", x |-> x]

\* ------------------------------------------------------------------------
\* naive_model/calibration.py
\* ------------------------------------------------------------------------

\* the (None, None) result
Absent == [kind |-> "none"]

Pair(V, sigma_V) == [kind |-> "pair", V |-> V, sigma_V |-> sigma_V]

\* mutant: the input check without its maturity test
InputRejected_NoMaturity(E, sigma_E, D, T) ==
    FLe(E, Zero) \/ FLe(sigma_E, Zero) \/ FLt(D, Zero)

\* the pre-solve input check: TRUE when the call returns None, None at once
InputRejected(E, sigma_E, D, T) ==
    FLe(E, Zero) \/ FLe(sigma_E, Zero) \/ FLt(D, Zero) \/ FLe(T, Zero)

\* np.clip(x, lo, hi): NaN stays NaN
NpClip(x, lo, hi) ==
    IF IsRaise(x) \/ IsNaN(x) THEN x ELSE IF FLt(x, lo) THEN lo ELSE IF FGt(x, hi) THEN hi ELSE x

\* the default initial guess [V0, sigma_V0], computed before the try block
InitialGuess(np, E, sigma_E, D) ==
    LET V0 == PyAdd(E, D)
        sigma_V0 == IF FGt(PyAdd(E, D), Zero)
                    THEN PyTrueDiv(np, PyMul(sigma_E, E), PyAdd(E, D))
                    ELSE sigma_E
    IN  <<V0, NpClip(sigma_V0, Frac(1, 100), Frac(99, 100))>>

\* the penalty residual 1e10 (a large finite value of the format)
Penalty == Num(MaxUnits)

\* mutant: the residual function with V < 0 or sigma_V < 0 as its guard
equations_StrictGuard(E, sigma_E, D, T, r, params) ==
    LET V == params[1]
        sigma_V == params[2]
    IN  IF FLt(V, Zero) \/ FLt(sigma_V, Zero)
        THEN [fvec |-> <<Penalty, Penalty>>, priced |-> FALSE]
        ELSE LET E_calc == black_scholes_call(TRUE, V, D, T, r, sigma_V)
                 eq1 == FSub(E_calc, E)
                 delta == black_scholes_delta(TRUE, V, D, T, r, sigma_V)
                 left == FMul(sigma_E, E)
                 right == FMul(FMul(delta, sigma_V), V)
                 eq2 == FSub(right, left)
             IN  [fvec |-> <<eq1, eq2>>, priced |-> TRUE]

\* the residual function handed to fsolve; params holds numpy float64 values
equations(E, sigma_E, D, T, r, params) ==
    LET V == params[1]
        sigma_V == params[2]
    IN  IF FLe(V, Zero) \/ FLe(sigma_V, Zero)
        THEN [fvec |-> <<Penalty, Penalty>>, priced |-> FALSE]
        ELSE LET E_calc == black_scholes_call(TRUE, V, D, T, r, sigma_V)
                 eq1 == FSub(E_calc, E)
                 delta == black_scholes_delta(TRUE, V, D, T, r, sigma_V)
                 left == FMul(sigma_E, E)
                 right == FMul(FMul(delta, sigma_V), V)
                 eq2 == FSub(right, left)
             IN  [fvec |-> <<eq1, eq2>>, priced |-> TRUE]

\* mutant: the acceptance checks without the convergence test
AcceptanceGate_NoStatus(E, V, sigma_V, ier) ==
    IF FLe(V, Zero) \/ FLe(sigma_V, Zero) THEN Absent
    ELSE IF FLt(V, FMul(E, Frac(101, 100))) THEN Absent
    ELSE IF FGt(sigma_V, Two) \/ FLt(sigma_V, Frac(1, 10000)) THEN Absent
    ELSE Pair(V, sigma_V)

\* the post-solve acceptance checks on fsolve's point and status
AcceptanceGate(E, V, sigma_V, ier) ==
    IF ier # 1 THEN Absent
    ELSE IF FLe(V, Zero) \/ FLe(sigma_V, Zero) THEN Absent
    ELSE IF FLt(V, FMul(E, Frac(101, 100))) THEN Absent
    ELSE IF FGt(sigma_V, Two) \/ FLt(sigma_V, Frac(1, 10000)) THEN Absent
    ELSE Pair(V, sigma_V)

\* except Exception: return None, None
OnSolveException(exc) == Absent

\* abs(x)
FAbs(x) == IF FLt(x, Zero) THEN FNeg(x) ELSE x

\* abs(check - target) / target of calibrate_with_validation
RelError(check, target) == NpDiv(FAbs(FSub(check, ToFloat(target))), ToFloat(target))

\* sigma_E_check = (delta * sigma_V * V) / E_check if E_check > 0 else 0
SigmaECheck(E_check, delta, V, sigma_V) ==
    IF FGt(E_check, Zero)
    THEN NpDiv(FMul(FMul(delta, sigma_V), V), E_check)
    ELSE Zero

\* E_error and sigma_E_error from the recomputed E_check and delta
ErrorsOf(E_check, delta, E, sigma_E, V, sigma_V) ==
    <<RelError(E_check, E),
      RelError(SigmaECheck(E_check, delta, V, sigma_V), sigma_E)>>

\* E_error and sigma_E_error, recomputed from the calibrated pair
ValidationErrors(E, sigma_E, D, T, r, V, sigma_V) ==
    ErrorsOf(black_scholes_call(TRUE, V, ToFloat(D), T, r, sigma_V),
             black_scholes_delta(TRUE, V, ToFloat(D), T, r, sigma_V),
             E, sigma_E, V, sigma_V)

\* Python's None as a value of the result dict
None == [k |-> "None", v |-> 0]

\* the result dict of calibrate_with_validation
ValidationDict(V, sigma_V, success, message) ==
    [kind |-> "dict", V |-> V, sigma_V |-> sigma_V, success |-> success,
     message |-> message]

\* the result for a calibrated pair whose recomputed errors are err
ValidationVerdict(err, V, sigma_V) ==
    IF FGt(err[1], Frac(1, 100)) \/ FGt(err[2], Frac(1, 100))
    THEN ValidationDict(None, None, FALSE, "Poor match")
    ELSE ValidationDict(V, sigma_V, TRUE, "Calibration successful")

\* calibrate_with_validation once calibrate_asset_parameters has returned out
\* (or raised: nothing catches it)
calibrate_with_validation(E, sigma_E, D, T, r, out) ==
    IF out.kind = "raise" THEN out
    ELSE IF out.kind = "none"
    THEN ValidationDict(None, None, FALSE, "Calibration failed to converge")
    ELSE ValidationVerdict(ValidationErrors(E, sigma_E, D, T, r, out.V, out.sigma_V),
                           out.V, out.sigma_V)

\* ------------------------------------------------------------------------
\* State
\* ------------------------------------------------------------------------

VARIABLES
    pc,        \* "idle", or "solving" while fsolve runs inside a calibration
    call,      \* the operation last invoked, with its arguments
    ret,       \* what that operation returned (or raised); "pending" meanwhile
    solver,    \* fsolve's run for the current calibration
    results    \* the driver's list of per-row records

vars == <<pc, call, ret, solver, results>>

\* residual evaluations fsolve may make in one solve (its maxfev)
MaxFev == 2

\* rows of the merged firm data the driver iterates over
MaxRows == 2

Pending == [kind |-> "pending"]

NoCall == [op |-> "none", caller |-> "none"]

\* fsolve not invoked by the current call
NotInvoked == [invoked |-> FALSE, nfev |-> 0, x |-> <<NaN, NaN>>,
               fvec |-> <<NaN, NaN>>, priced |-> FALSE, status |-> "none", ier |-> 0]

\* time to maturity of the drivers
DriverT == One

\* ------------------------------------------------------------------------
\* Inputs
\* ------------------------------------------------------------------------

CalE == {Whole(-100), Zero, Whole(100), NaN, PosInf}

CalSigmaE == {Zero, Frac(3, 10)}

CalD == {Whole(-50), Zero, Whole(50)}

\* Python int arguments, some beyond the largest float
CalIntE == {PyInt(100), PyInt(2 * MaxFloat)}

CalIntSigmaE == {PyInt(1), PyInt(2 * MaxFloat)}

CalIntD == {PyInt(0), PyInt(50)}

CalT == {Zero, One}

CalR == {Frac(2, 100)}

RiskV == {Whole(-50), Zero, Whole(50), Whole(100), Whole(200)}

RiskD == {Zero, Whole(50), Whole(100), Whole(150)}

RiskT == {Zero, One, Two}

RiskR == {Frac(-5, 100), Frac(2, 100), Whole(10)}

RiskSigma == {Zero, Frac(1, 1000), Frac(2, 10), Frac(5, 10), Whole(3), Whole(40)}

\* arguments of the option-pricing primitives
PriceS == {Whole(-50), Zero, Whole(50), Whole(100), Whole(200)}

PriceK == {Whole(-50), Zero, Whole(50), Whole(100)}

PriceT == {Zero, One, Two}

PriceR == {Frac(-5, 100), Frac(2, 100), Whole(10)}

PriceSigma == {Zero, Frac(2, 10), Frac(5, 10), Whole(40)}

Row(E, sigma_E, D, r) == [E |-> E, sigma_E |-> sigma_E, D |-> D, r |-> r]

\* rows of the merged frame (NaN is a missing value): one complete row, and
\* rows that fail one test of the drivers' check each
DriverRows ==
    {Row(Whole(100), Frac(3, 10), Whole(50), Frac(2, 100)),
     Row(Zero, Frac(3, 10), Whole(50), Frac(2, 100)),
     Row(Whole(100), Zero, Whole(50), Frac(2, 100)),
     Row(Whole(100), Frac(3, 10), Zero, Frac(2, 100)),
     Row(Whole(100), Frac(3, 10), NaN, Frac(2, 100)),
     Row(Whole(100), Frac(3, 10), Whole(50), NaN)}

\* statuses fsolve reports (1 = converged)
IerValues == 1 .. 5

\* points fsolve may try for a call with equity E and debt D: around every
\* threshold of the acceptance checks for a library call, fewer in a driver run
SolverPoints(caller, E, D) ==
    IF caller = "driver"
    THEN {NaN, E, FAdd(E, D), PosInf} \X {Zero, Frac(3, 10)}
    ELSE {NaN, Zero, E, FMul(E, Frac(101, 100)), FAdd(E, D), PosInf}
         \X {NaN, Zero, Num(SCALE \div 20000), Frac(1, 10000), Frac(3, 10), Two,
             Num(2 * SCALE + 1)}

\* ------------------------------------------------------------------------
\* The drivers' row loop (naive_model/__main__.py, improved/__main__.py)
\* ------------------------------------------------------------------------

\* mutant: the row check with the calibrator's D < 0 in place of D <= 0
RowSkipped_DebtNegative(E, sigma_E, D, r) ==
    \/ IsNaN(E) \/ IsNaN(sigma_E) \/ IsNaN(D) \/ IsNaN(r)
    \/ FLe(E, Zero) \/ FLe(sigma_E, Zero) \/ FLt(D, Zero)

\* the check for missing or invalid data: TRUE when the row is not calibrated
RowSkipped(E, sigma_E, D, r) ==
    \/ IsNaN(E) \/ IsNaN(sigma_E) \/ IsNaN(D) \/ IsNaN(r)
    \/ FLe(E, Zero) \/ FLe(sigma_E, Zero) \/ FLe(D, Zero)

\* the record stored for a row that was skipped or whose calibration failed
FailedRecord(date, E, sigma_E, D, r) ==
    [date |-> date, E |-> E, sigma_E |-> sigma_E, D |-> D, r |-> r,
     V |-> NaN, sigma_V |-> NaN, DD |-> NaN, PD |-> NaN, success |-> FALSE]

\* the record stored for a calibrated row
SuccessRecord(date, E, sigma_E, D, r, V, sigma_V, risk) ==
    [date |-> date, E |-> E, sigma_E |-> sigma_E, D |-> D, r |-> r,
     V |-> V, sigma_V |-> sigma_V, DD |-> risk.DD, PD |-> risk.PD, success |-> TRUE]

\* the rest of the loop body once calibrate_asset_parameters has returned out
RowRecord(date, c, out) ==
    IF out.kind = "none"
    THEN FailedRecord(date, c.E, c.sigma_E, c.D, c.r)
    ELSE SuccessRecord(date, c.E, c.sigma_E, c.D, c.r, out.V, out.sigma_V,
                       compute_risk_measures(TRUE, out.V, c.D, c.T, c.r, out.sigma_V))

\* ------------------------------------------------------------------------
\* The drivers' daily debt series (USE_REAL_DATA = True in both drivers)
\* ------------------------------------------------------------------------

\* latest calendar date of the input files
MaxDate == 3

\* the elements of a set of dates in ascending order (sort_values)
RECURSIVE SortedDates(_)
SortedDates(S) ==
    IF S = {} THEN <<>>
    ELSE <<CHOOSE d \in S : \A e \in S : d <= e>>
         \o SortedDates(S \ {CHOOSE d \in S : \A e \in S : d <= e})

\* a firm's quarterly debt rows sorted by date, for a debt value per date
DebtTable(debtAt) ==
    [i \in 1..Len(SortedDates(DOMAIN debtAt)) |->
        [date |-> SortedDates(DOMAIN debtAt)[i],
         debt |-> debtAt[SortedDates(DOMAIN debtAt)[i]]]]

\* quarterly debt values of the input file (NaN is a missing value)
DebtValues == {Whole(50), Whole(80), NaN}

\* the quarterly debt tables of one firm
DebtTables == {DebtTable(debtAt) : debtAt \in UNION {[S -> DebtValues] : S \in SUBSET (1..MaxDate)}}

\* the sorted unique dates of one firm's equity prices
EquityDates == {SortedDates(S) : S \in (SUBSET (1..MaxDate)) \ {{}}}

\* pd.merge_asof(..., direction='backward') for one left date: the debt of the
\* last row dated at or before t
AsofBackward(table, t) ==
    IF \E i \in 1..Len(table) : table[i].date <= t
    THEN table[CHOOSE i \in 1..Len(table) :
                  /\ table[i].date <= t
                  /\ \A j \in 1..Len(table) : table[j].date <= t => j <= i].debt
    ELSE NaN

\* pd.merge_asof(..., direction='forward') for one left date: the debt of the
\* first row dated at or after t
AsofForward(table, t) ==
    IF \E i \in 1..Len(table) : table[i].date >= t
    THEN table[CHOOSE i \in 1..Len(table) :
                  /\ table[i].date >= t
                  /\ \A j \in 1..Len(table) : table[j].date >= t => i <= j].debt
    ELSE NaN

\* Series.ffill(): a missing value takes the last value before it
RECURSIVE FfillAt(_, _)
FfillAt(col, i) ==
    IF i = 1 \/ ~IsNaN(col[i]) THEN col[i] ELSE FfillAt(col, i - 1)

ffill(col) == [i \in 1..Len(col) |-> FfillAt(col, i)]

\* Series.bfill(): a missing value takes the next value after it
RECURSIVE BfillAt(_, _)
BfillAt(col, i) ==
    IF i = Len(col) \/ ~IsNaN(col[i]) THEN col[i] ELSE BfillAt(col, i + 1)

bfill(col) == [i \in 1..Len(col) |-> BfillAt(col, i)]

\* firm_debt_daily['debt'] of the naive driver
NaiveDebtDaily(table, equity_dates) ==
    IF Len(table) = 0
    THEN [i \in 1..Len(equity_dates) |-> NaN]
    ELSE ffill([i \in 1..Len(equity_dates) |-> AsofBackward(table, equity_dates[i])])

\* firm_debt_daily['debt'] of the improved driver
ImprovedDebtDaily(table, equity_dates) ==
    bfill([i \in 1..Len(equity_dates) |-> AsofForward(table, equity_dates[i])])

\* ------------------------------------------------------------------------
\* The improved driver's second pass: exponential smoothing of PD_raw
\* ------------------------------------------------------------------------

SMOOTHING_ALPHA == Frac(1, 10)

\* the improved driver's record for a row: the naive record with PD renamed
\* to PD_raw, and firm_id and an empty PD_smoothed added
ImprovedRecord(rec, firm_id) ==
    [date |-> rec.date, firm_id |-> firm_id, E |-> rec.E, sigma_E |-> rec.sigma_E,
     D |-> rec.D, r |-> rec.r, V |-> rec.V, sigma_V |-> rec.sigma_V, DD |-> rec.DD,
     PD_raw |-> rec.PD, PD_smoothed |-> NaN, success |-> rec.success]

\* mutant: the step with the weighted sum left undivided by the total weight
EwmStep_Unnormalized(st, cur, alpha) ==
    IF ~IsNaN(st.weighted)
    THEN IF ~IsNaN(cur)
         THEN [weighted |-> FAdd(FMul(FMul(st.old_wt, FSub(One, alpha)), st.weighted),
                                 cur),
               old_wt |-> FAdd(FMul(st.old_wt, FSub(One, alpha)), One)]
         ELSE [weighted |-> st.weighted,
               old_wt |-> FMul(st.old_wt, FSub(One, alpha))]
    ELSE IF ~IsNaN(cur)
         THEN [weighted |-> cur, old_wt |-> st.old_wt]
         ELSE st

\* mutant: the step with the old weight decayed by alpha - 1
EwmStep_NegatedDecay(st, cur, alpha) ==
    IF ~IsNaN(st.weighted)
    THEN IF ~IsNaN(cur)
         THEN [weighted |->
                   IF st.weighted # cur
                   THEN NpDiv(FAdd(FMul(FMul(st.old_wt, FSub(alpha, One)), st.weighted),
                                   cur),
                              FAdd(FMul(st.old_wt, FSub(alpha, One)), One))
                   ELSE st.weighted,
               old_wt |-> FAdd(FMul(st.old_wt, FSub(alpha, One)), One)]
         ELSE [weighted |-> st.weighted,
               old_wt |-> FMul(st.old_wt, FSub(alpha, One))]
    ELSE IF ~IsNaN(cur)
         THEN [weighted |-> cur, old_wt |-> st.old_wt]
         ELSE st

\* one step of pandas' ewm(alpha).mean() (adjust=True, ignore_na=False) from
\* the running state st = [weighted, old_wt] to the next value cur
EwmStep(st, cur, alpha) ==
    IF ~IsNaN(st.weighted)
    THEN IF ~IsNaN(cur)
         THEN [weighted |->
                  IF st.weighted # cur
                  THEN NpDiv(FAdd(FMul(FMul(st.old_wt, FSub(One, alpha)), st.weighted),
                                  cur),
                             FAdd(FMul(st.old_wt, FSub(One, alpha)), One))
                  ELSE st.weighted,
               old_wt |-> FAdd(FMul(st.old_wt, FSub(One, alpha)), One)]
         ELSE [weighted |-> st.weighted,
               old_wt |-> FMul(st.old_wt, FSub(One, alpha))]
    ELSE IF ~IsNaN(cur)
         THEN [weighted |-> cur, old_wt |-> st.old_wt]
         ELSE st

\* the running state of the mean after the first i values
RECURSIVE EwmState(_, _, _)
EwmState(vals, alpha, i) ==
    IF i = 1 THEN [weighted |-> vals[1], old_wt |-> One]
    ELSE EwmStep(EwmState(vals, alpha, i - 1), vals[i], alpha)

\* Series.ewm(alpha=alpha).mean()
EwmMean(vals, alpha) == [i \in 1..Len(vals) |-> EwmState(vals, alpha, i).weighted]

\* the row labels in I ordered by the rows' dates (sort_values('date').index)
RECURSIVE SortByDate(_, _)
SortByDate(df, I) ==
    IF I = {} THEN <<>>
    ELSE <<CHOOSE i \in I : \A j \in I : df[i].date <= df[j].date>>
         \o SortByDate(df, I \ {CHOOSE i \in I : \A j \in I : df[i].date <= df[j].date})

\* firm_indices: the firm's successful rows in time order
FirmIndices(df, firm_id) ==
    SortByDate(df, {i \in 1..Len(df) : df[i].firm_id = firm_id /\ df[i].success})

\* raw_pds = results_df.loc[firm_indices, 'PD_raw']
RawPds(df, firm_indices) ==
    [k \in 1..Len(firm_indices) |-> df[firm_indices[k]].PD_raw]

\* mutant: the assignment writing the values into PD_raw as well
StoreBack_BothColumns(df, firm_indices, values) ==
    [i \in 1..Len(df) |->
        IF \E k \in 1..Len(firm_indices) : firm_indices[k] = i
        THEN [df[i] EXCEPT
                 !.PD_smoothed =
                     values[CHOOSE k \in 1..Len(firm_indices) : firm_indices[k] = i],
                 !.PD_raw =
                     values[CHOOSE k \in 1..Len(firm_indices) : firm_indices[k] = i]]
        ELSE df[i]]

\* results_df.loc[firm_indices, 'PD_smoothed'] = values
StoreBack(df, firm_indices, values) ==
    [i \in 1..Len(df) |->
        IF \E k \in 1..Len(firm_indices) : firm_indices[k] = i
        THEN [df[i] EXCEPT !.PD_smoothed =
                 values[CHOOSE k \in 1..Len(firm_indices) : firm_indices[k] = i]]
        ELSE df[i]]

\* mutant: the smoothing of one firm over its rows in frame order
SmoothFirm_FrameOrder(df, firm_id, alpha) ==
    StoreBack(df, SortByDate([i \in 1..Len(df) |-> [date |-> i]],
                             {i \in 1..Len(df) : df[i].firm_id = firm_id /\ df[i].success}),
              EwmMean(RawPds(df, SortByDate([i \in 1..Len(df) |-> [date |-> i]],
                             {i \in 1..Len(df) : df[i].firm_id = firm_id /\ df[i].success})),
                      alpha))

\* the body of the smoothing loop for one firm
SmoothFirm(df, firm_id, alpha) ==
    IF Len(FirmIndices(df, firm_id)) > 0
    THEN StoreBack(df, FirmIndices(df, firm_id),
                   EwmMean(RawPds(df, FirmIndices(df, firm_id)), alpha))
    ELSE df

\* the smoothing loop over the first n firms
RECURSIVE SmoothingPass(_, _, _, _)
SmoothingPass(df, firms, n, alpha) ==
    IF n = 0 THEN df
    ELSE SmoothFirm(SmoothingPass(df, firms, n - 1, alpha), firms[n], alpha)

\* PD_raw values of successful rows; NaN is the PD of a row calibrated to a
\* NaN asset value
PdValues == {Frac(2, 10), One, NaN}

\* what the first pass made of a row: skipped or failed, or calibrated with PD
RowOutcomes ==
    {[success |-> FALSE, PD |-> NaN]} \cup {[success |-> TRUE, PD |-> p] : p \in PdValues}

\* the record the first pass stores for a row with the given outcome
OutcomeRecord(date, firm_id, outcome) ==
    ImprovedRecord(
        IF outcome.success
        THEN SuccessRecord(date, Whole(100), Frac(3, 10), Whole(50), Frac(2, 100),
                           IF IsNaN(outcome.PD) THEN NaN ELSE Whole(150), Frac(3, 10),
                           [DD |-> IF IsNaN(outcome.PD) THEN NaN ELSE Two,
                            PD |-> outcome.PD])
        ELSE FailedRecord(date, Whole(100), Frac(3, 10), Whole(50), Frac(2, 100)),
        firm_id)

\* most rows of one firm in the merged data
MaxSeries == 3

\* the rows of one firm: distinct dates in any order, any outcome per row
FirmRows(firm_id, n) ==
    {[i \in 1..n |-> OutcomeRecord(dates[i], firm_id, outcomes[i])] :
        dates \in {d \in [1..n -> 1..MaxSeries] : \A i, j \in 1..n : d[i] = d[j] => i = j},
        outcomes \in [1..n -> RowOutcomes]}

\* the firms of the equity price file, in order of first appearance
Firms == <<1, 2>>

\* results_df after the first pass: the rows of firm 1, then none or one
\* (successful) row of firm 2
ResultFrames ==
    {rows1 \o rows2 :
        rows1 \in UNION {FirmRows(1, n) : n \in 1..MaxSeries},
        rows2 \in {<<>>, <<OutcomeRecord(1, 2, [success |-> TRUE, PD |-> One])>>}}

\* ------------------------------------------------------------------------
\* Actions
\* ------------------------------------------------------------------------

Init ==
    /\ pc = "idle"
    /\ call = NoCall
    /\ ret = Pending
    /\ solver = NotInvoked
    /\ results = <<>>

\* a library call: a behaviour is one library call or one driver run
LibraryIdle == pc = "idle" /\ call = NoCall

CallDistanceToDefault ==
    /\ LibraryIdle
    /\ \E np \in BOOLEAN, V \in RiskV, D \in RiskD, T \in RiskT, r \in RiskR,
          sigma_V \in RiskSigma :
          /\ call' = [op |-> "distance_to_default", caller |-> "library", np |-> np,
                      V |-> V, D |-> D, T |-> T, r |-> r, sigma_V |-> sigma_V]
          /\ ret' = FloatResult(distance_to_default(np, V, D, T, r, sigma_V))
    /\ solver' = NotInvoked
    /\ UNCHANGED <<pc, results>>

CallDefaultProbability ==
    /\ LibraryIdle
    /\ \E np \in BOOLEAN, V \in RiskV, D \in RiskD, T \in RiskT, r \in RiskR,
          sigma_V \in RiskSigma :
          /\ call' = [op |-> "default_probability", caller |-> "library", np |-> np,
                      V |-> V, D |-> D, T |-> T, r |-> r, sigma_V |-> sigma_V]
          /\ ret' = FloatResult(default_probability(np, V, D, T, r, sigma_V))
    /\ solver' = NotInvoked
    /\ UNCHANGED <<pc, results>>

CallComputeRiskMeasures ==
    /\ LibraryIdle
    /\ \E np \in BOOLEAN, V \in RiskV, D \in RiskD, T \in RiskT, r \in RiskR,
          sigma_V \in RiskSigma :
          /\ call' = [op |-> "compute_risk_measures", caller |-> "library", np |-> np,
                      V |-> V, D |-> D, T |-> T, r |-> r, sigma_V |-> sigma_V]
          /\ ret' = compute_risk_measures(np, V, D, T, r, sigma_V)
    /\ solver' = NotInvoked
    /\ UNCHANGED <<pc, results>>

CallBlackScholesCall ==
    /\ LibraryIdle
    /\ \E np \in BOOLEAN, S \in PriceS, K \in PriceK, T \in PriceT, r \in PriceR,
          sigma \in PriceSigma :
          /\ call' = [op |-> "black_scholes_call", caller |-> "library", np |-> np,
                      S |-> S, K |-> K, T |-> T, r |-> r, sigma |-> sigma]
          /\ ret' = FloatResult(black_scholes_call(np, S, K, T, r, sigma))
    /\ solver' = NotInvoked
    /\ UNCHANGED <<pc, results>>

CallBlackScholesDelta ==
    /\ LibraryIdle
    /\ \E np \in BOOLEAN, S \in PriceS, K \in PriceK, T \in PriceT, r \in PriceR,
          sigma \in PriceSigma :
          /\ call' = [op |-> "black_scholes_delta", caller |-> "library", np |-> np,
                      S |-> S, K |-> K, T |-> T, r |-> r, sigma |-> sigma]
          /\ ret' = FloatResult(black_scholes_delta(np, S, K, T, r, sigma))
    /\ solver' = NotInvoked
    /\ UNCHANGED <<pc, results>>

\* what the operation entered by caller returns once its call of
\* calibrate_asset_parameters has returned out (or raised)
Deliver(caller, E, sigma_E, D, T, r, out) ==
    IF caller = "validation"
    THEN calibrate_with_validation(E, sigma_E, D, T, r, out)
    ELSE out

\* calibrate_asset_parameters up to the call of fsolve
CalibrateBegin(caller, np, E, sigma_E, D, T, r) ==
    /\ call' = [op |-> IF caller = "validation" THEN "calibrate_with_validation"
                       ELSE "calibrate_asset_parameters",
                caller |-> caller, np |-> np,
                E |-> E, sigma_E |-> sigma_E, D |-> D, T |-> T, r |-> r]
    /\ IF InputRejected(E, sigma_E, D, T)
       THEN /\ ret' = Deliver(caller, E, sigma_E, D, T, r, Absent)
            /\ pc' = "idle"
            /\ solver' = NotInvoked
       ELSE LET x0 == InitialGuess(np, E, sigma_E, D)
            IN  IF IsRaise(x0[1]) \/ IsRaise(x0[2])
                THEN \* the guess is computed outside the try block
                     /\ ret' = Deliver(caller, E, sigma_E, D, T, r,
                                       [kind |-> "raise",
                                        exc |-> IF IsRaise(x0[1]) THEN x0[1].k
                                                ELSE x0[2].k])
                     /\ pc' = "idle"
                     /\ solver' = NotInvoked
                ELSE IF IsRaise(ToFloat(x0[1]))
                THEN \* inside the try block: a start point that is no float
                     /\ ret' = Deliver(caller, E, sigma_E, D, T, r,
                                       OnSolveException(ToFloat(x0[1]).k))
                     /\ pc' = "idle"
                     /\ solver' = [NotInvoked EXCEPT !.invoked = TRUE,
                                                     !.status = "raised"]
                ELSE /\ ret' = Pending
                     /\ pc' = "solving"
                     /\ solver' = [invoked |-> TRUE, nfev |-> 0,
                                   x |-> <<ToFloat(x0[1]), x0[2]>>,
                                   fvec |-> <<NaN, NaN>>, priced |-> FALSE,
                                   status |-> "running", ier |-> 0]

CallCalibrate ==
    /\ LibraryIdle
    /\ \/ \E E \in CalE, sigma_E \in CalSigmaE, D \in CalD, T \in CalT, r \in CalR :
             CalibrateBegin("library", FALSE, E, sigma_E, D, T, r)
       \/ \E E \in CalIntE, sigma_E \in CalIntSigmaE, D \in CalIntD, T \in CalT,
             r \in CalR :
             CalibrateBegin("library", FALSE, E, sigma_E, D, T, r)
    /\ UNCHANGED results

\* the daily debt series both drivers derive for one firm from the same files
AlignDebt ==
    /\ LibraryIdle
    /\ \E table \in DebtTables, equity_dates \in EquityDates :
          /\ call' = [op |-> "firm_debt_daily", caller |-> "main",
                      table |-> table, equity_dates |-> equity_dates]
          /\ ret' = [kind |-> "debt",
                     naive |-> NaiveDebtDaily(table, equity_dates),
                     improved |-> ImprovedDebtDaily(table, equity_dates)]
    /\ solver' = NotInvoked
    /\ UNCHANGED <<pc, results>>

\* the second pass of the improved driver over the frame of its first pass
ApplySmoothing ==
    /\ LibraryIdle
    /\ \E df \in ResultFrames :
          /\ call' = [op |-> "smoothing", caller |-> "main", df |-> df]
          /\ ret' = [kind |-> "frame",
                     df |-> SmoothingPass(df, Firms, Len(Firms), SMOOTHING_ALPHA)]
    /\ solver' = NotInvoked
    /\ UNCHANGED <<pc, results>>

\* mutant: a solver with no cap on its residual evaluations
EvalBudgetLeft_NoCap(nfev) == TRUE

\* fsolve stops evaluating once its evaluation cap (maxfev) is reached
EvalBudgetLeft(nfev) == nfev < MaxFev

CallCalibrateWithValidation ==
    /\ LibraryIdle
    /\ \/ \E E \in CalE, sigma_E \in CalSigmaE, D \in CalD, T \in CalT, r \in CalR :
             CalibrateBegin("validation", FALSE, E, sigma_E, D, T, r)
       \/ \E E \in CalIntE, sigma_E \in CalIntSigmaE, D \in CalIntD, T \in CalT,
             r \in CalR :
             CalibrateBegin("validation", FALSE, E, sigma_E, D, T, r)
    /\ UNCHANGED results

\* fsolve evaluates the residual function: first at the initial guess, then
\* wherever its iteration takes it
SolverEval ==
    /\ pc = "solving"
    /\ EvalBudgetLeft(solver.nfev)
    /\ \E x \in (IF solver.nfev = 0 THEN {solver.x}
                ELSE SolverPoints(call.caller, ToFloat(call.E), ToFloat(call.D))) :
          LET res == equations(ToFloat(call.E), ToFloat(call.sigma_E),
                               ToFloat(call.D), call.T, call.r, x)
          IN  solver' = [solver EXCEPT !.x = x, !.fvec = res.fvec,
                                       !.priced = res.priced,
                                       !.nfev = IF @ < MaxFev THEN @ + 1 ELSE @]
    /\ UNCHANGED <<pc, call, ret, results>>

\* calibrate_asset_parameters returns out to its caller (or raises); in a
\* driver the loop body goes on to store the row's record
CalibrateEnd(out) ==
    /\ pc' = "idle"
    /\ ret' = Deliver(call.caller, call.E, call.sigma_E, call.D, call.T, call.r, out)
    /\ results' = IF call.caller = "driver" /\ out.kind # "raise"
                  THEN Append(results, RowRecord(Len(results) + 1, call, out))
                  ELSE results
    /\ UNCHANGED call

\* fsolve returns its last point with a status, and the result is gated
SolverReturn ==
    /\ pc = "solving"
    /\ solver.nfev >= 1
    /\ \E ier \in IerValues :
          /\ solver' = [solver EXCEPT !.status = "returned", !.ier = ier]
          /\ CalibrateEnd(AcceptanceGate(ToFloat(call.E), solver.x[1], solver.x[2], ier))

\* an exception is raised inside the try block
SolverRaise ==
    /\ pc = "solving"
    /\ solver' = [solver EXCEPT !.status = "raised"]
    /\ CalibrateEnd(OnSolveException("Exception"))

\* one iteration of the driver's loop over the merged rows, up to the call of
\* calibrate_asset_parameters (or to the end, for a skipped row)
DriverRow ==
    /\ pc = "idle"
    /\ call = NoCall \/ call.caller = "driver"
    /\ Len(results) < MaxRows
    /\ \E row \in DriverRows :
          IF RowSkipped(row.E, row.sigma_E, row.D, row.r)
          THEN /\ call' = [op |-> "main", caller |-> "driver", np |-> TRUE,
                           E |-> row.E, sigma_E |-> row.sigma_E, D |-> row.D,
                           T |-> DriverT, r |-> row.r]
               /\ ret' = [kind |-> "skipped"]
               /\ solver' = NotInvoked
               /\ pc' = "idle"
               /\ results' = Append(results,
                                    FailedRecord(Len(results) + 1, row.E, row.sigma_E,
                                                 row.D, row.r))
          ELSE /\ CalibrateBegin("driver", TRUE, row.E, row.sigma_E, row.D,
                                 DriverT, row.r)
               /\ UNCHANGED results

Next ==
    \/ CallDistanceToDefault
    \/ CallDefaultProbability
    \/ CallComputeRiskMeasures
    \/ CallBlackScholesCall
    \/ CallBlackScholesDelta
    \/ CallCalibrate
    \/ CallCalibrateWithValidation
    \/ SolverEval
    \/ SolverReturn
    \/ SolverRaise
    \/ DriverRow
    \/ AlignDebt
    \/ ApplySmoothing

Spec == Init /\ [][Next]_vars

\* a solve that has started keeps running (fsolve is called synchronously):
\* weak fairness of the solver's steps, which are the only steps enabled
\* while pc = "solving" (and SolverRaise always is), written out as WF's
\* definition
FairSpec == Spec /\ ([]<>(pc # "solving") \/ []<><<pc = "solving">>_vars)

\* ------------------------------------------------------------------------
\* Properties
\* ------------------------------------------------------------------------

\* a call of calibrate_asset_parameters has returned (or raised)
CalibrateDone == call.op = "calibrate_asset_parameters" /\ pc = "idle"

\* fsolve returned a point and a status to the current calibration
SolverEnded == CalibrateDone /\ solver.status = "returned"

\* C1: every solver result with V at or below 1.01*E, V = 1.01*E included, is
\* returned as (None, None), so that a returned V is strictly above 1.01*E.
C1_AtOrBelowMarginAbsent ==
    (SolverEnded /\ FLe(solver.x[1], FMul(ToFloat(call.E), Frac(101, 100)))) => ret = Absent

\* C2: a returned pair has V > 0, sigma_V > 0 and 0.0001 <= sigma_V <= 2.0,
\* whatever point the solver ended on, non-finite values included.
C2_ReturnedPairInBounds ==
    (CalibrateDone /\ ret.kind = "pair") =>
        /\ FGt(ret.V, Zero)
        /\ FGt(ret.sigma_V, Zero)
        /\ FLe(Frac(1, 10000), ret.sigma_V)
        /\ FLe(ret.sigma_V, Two)

\* C3: when fsolve reports a status other than 1 (converged), the call returns
\* (None, None) whatever point the solver ended on.
C3_NonConvergedAbsent ==
    (SolverEnded /\ solver.ier # 1) => ret = Absent

\* C3 witness: a non-converged solve ended on a point that passes every other
\* acceptance check, and the call returned (None, None).
C3_Witness ==
    /\ SolverEnded
    /\ solver.ier # 1
    /\ FGt(solver.x[1], FMul(ToFloat(call.E), Frac(101, 100)))
    /\ FGe(solver.x[2], Frac(1, 10000))
    /\ FLe(solver.x[2], Two)
    /\ ret = Absent

\* C4: with E <= 0 or sigma_E <= 0 or D < 0 or T <= 0 the call returns
\* (None, None) at once: fsolve is not invoked and no residual is evaluated.
C4_InvalidInputNoSolve ==
    (/\ call.op = "calibrate_asset_parameters"
     /\ \/ FLe(call.E, Zero)
        \/ FLe(call.sigma_E, Zero)
        \/ FLt(call.D, Zero)
        \/ FLe(call.T, Zero))
    => (pc = "idle" /\ ret = Absent /\ ~solver.invoked /\ solver.nfev = 0)

\* C4 witness: a call whose only invalid input is T = 0 has returned
\* (None, None) without a solve.
C4_Witness ==
    /\ CalibrateDone
    /\ FGt(call.E, Zero) /\ FGt(call.sigma_E, Zero) /\ FGe(call.D, Zero)
    /\ FEq(call.T, Zero)
    /\ ret = Absent
    /\ ~solver.invoked

\* some of E, sigma_E, D of the current observation is not positive
ObservationNotPositive ==
    FLe(call.E, Zero) \/ FLe(call.sigma_E, Zero) \/ FLe(call.D, Zero)

\* C5 as stated: an observation with E <= 0 or sigma_E <= 0 or D <= 0, D = 0 in
\* particular, never has the solver run for it.
C5_NoSolveUnlessAllPositive ==
    (call.op \in {"calibrate_asset_parameters", "main"} /\ ObservationNotPositive)
    => ~solver.invoked

\* C5 amended: in the drivers the solver runs only for rows with E > 0,
\* sigma_E > 0 and D > 0 and no missing value; any other row ends as a failed
\* record without a solve.
C5_DriverSolvesOnlyPositiveRows ==
    call.caller = "driver" =>
        /\ solver.invoked =>
              (FGt(call.E, Zero) /\ FGt(call.sigma_E, Zero) /\ FGt(call.D, Zero))
        /\ (\/ ObservationNotPositive
            \/ IsNaN(call.E) \/ IsNaN(call.sigma_E) \/ IsNaN(call.D) \/ IsNaN(call.r))
           => /\ ~solver.invoked
              /\ pc = "idle"
              /\ results # <<>>
              /\ ~results[Len(results)].success
              /\ results[Len(results)].D = call.D

\* C5 witness: a driver row with D = 0 (E and sigma_E positive) was stored as a
\* failed record and no solve was made.
C5_Witness ==
    /\ call.caller = "driver"
    /\ FGt(call.E, Zero) /\ FGt(call.sigma_E, Zero) /\ FEq(call.D, Zero)
    /\ ~solver.invoked
    /\ results # <<>>
    /\ ~results[Len(results)].success

\* C6: calibrate_asset_parameters never raises for numeric inputs: every
\* outcome, an exception while building the initial guess or inside the solve
\* included, comes back as the returned pair.
C6_CalibrateNeverRaises ==
    call.op = "calibrate_asset_parameters" => ret.kind \in {"pending", "none", "pair"}

\* one of the malformed inputs C7 names: V <= 0, D = 0, sigma_V = 0 or T = 0
MalformedRiskInput ==
    \/ FLe(call.V, Zero)
    \/ FEq(call.D, Zero)
    \/ FEq(call.sigma_V, Zero)
    \/ FEq(call.T, Zero)

\* C7: default_probability and compute_risk_measures never raise on malformed
\* inputs (V <= 0, D = 0, sigma_V = 0, T = 0); they return NaN for PD instead.
C7_MalformedGivesNaN ==
    (call.op \in {"default_probability", "compute_risk_measures"} /\ MalformedRiskInput)
    => /\ ret.kind # "raise"
       /\ call.op = "default_probability" => IsNaN(ret.x)
       /\ call.op = "compute_risk_measures" => IsNaN(ret.PD)

\* C8: distance_to_default never raises, and returns NaN exactly when V <= 0 or
\* sigma_V <= 0 or T <= 0 or D <= 0 or std(V_T) = 0.
C8_UndefinedExactlyWhenDegenerate ==
    call.op = "distance_to_default" =>
        /\ ret.kind = "float"
        /\ IsNaN(ret.x) <=>
              \/ FLe(call.V, Zero) \/ FLe(call.sigma_V, Zero)
              \/ FLe(call.T, Zero) \/ FLe(call.D, Zero)
              \/ FEq(StdVT(call.np, call.V, call.T, call.r, call.sigma_V), Zero)

\* V > 0, D > 0, T > 0 and sigma_V > 0 in the current risk-measure call
ValidRiskInput ==
    /\ FGt(call.V, Zero) /\ FGt(call.D, Zero)
    /\ FGt(call.T, Zero) /\ FGt(call.sigma_V, Zero)

\* C9: for V > 0, D > 0, T > 0, sigma_V > 0 and any r, default_probability
\* returns a value in [0, 1].
C9_DefaultProbabilityInUnitInterval ==
    (call.op = "default_probability" /\ ValidRiskInput) =>
        /\ ret.kind = "float"
        /\ FGe(ret.x, Zero)
        /\ FLe(ret.x, One)

\* C10: for valid inputs where distance_to_default is defined, DD is positive
\* when V*e^(rT) exceeds D and negative when D exceeds V*e^(rT).
C10_SignFollowsExpectedValue ==
    (/\ call.op = "distance_to_default"
     /\ ValidRiskInput
     /\ ret.kind = "float"
     /\ ~IsNaN(ret.x))
    => /\ FGt(ExpectedVT(call.V, call.T, call.r), call.D) => FGt(ret.x, Zero)
       /\ FLt(ExpectedVT(call.V, call.T, call.r), call.D) => FLt(ret.x, Zero)

\* C11: black_scholes_call returns 0.0 when S <= 0 or sigma <= 0 or T <= 0
\* (also when K <= 0), and otherwise exactly S when K <= 0.
C11_DegenerateOrder ==
    call.op = "black_scholes_call" =>
        /\ (FLe(call.S, Zero) \/ FLe(call.sigma, Zero) \/ FLe(call.T, Zero))
              => ret = FloatResult(Zero)
        /\ (/\ FGt(call.S, Zero) /\ FGt(call.sigma, Zero) /\ FGt(call.T, Zero)
            /\ FLe(call.K, Zero))
              => ret = FloatResult(call.S)

\* C11 witness: a call with K <= 0 and S <= 0 returned 0.0, not S.
C11_Witness ==
    /\ call.op = "black_scholes_call"
    /\ FLe(call.K, Zero)
    /\ FLt(call.S, Zero)
    /\ ret = FloatResult(Zero)

\* C12: for S > 0, K > 0, T > 0, sigma > 0 and any r the call price is
\* non-negative and strictly less than S; for every input it is not negative.
C12_PriceBelowUnderlying ==
    call.op = "black_scholes_call" =>
        /\ ret.kind = "float"
        /\ ~FLt(ret.x, Zero)
        /\ (/\ FGt(call.S, Zero) /\ FGt(call.K, Zero)
            /\ FGt(call.T, Zero) /\ FGt(call.sigma, Zero))
              => (FGe(ret.x, Zero) /\ FLt(ret.x, call.S))

\* C13: black_scholes_delta returns 0.0 whenever S <= 0 or sigma <= 0 or
\* T <= 0 or K <= 0, and for every input its result lies in [0, 1].
C13_DeltaEdgeCasesAndRange ==
    call.op = "black_scholes_delta" =>
        /\ (\/ FLe(call.S, Zero) \/ FLe(call.sigma, Zero)
            \/ FLe(call.T, Zero) \/ FLe(call.K, Zero))
              => ret = FloatResult(Zero)
        /\ ret.kind = "float"
        /\ FGe(ret.x, Zero)
        /\ FLe(ret.x, One)

\* C14: for fixed K, T, r, sigma, black_scholes_delta is non-decreasing in S
\* over all S: the delta at any S1 <= S is at most the delta returned for S.
C14_DeltaMonotoneInS ==
    call.op = "black_scholes_delta" =>
        \A S1 \in PriceS :
            FLe(S1, call.S) =>
                LET d == FloatResult(black_scholes_delta(call.np, S1, call.K, call.T,
                                                         call.r, call.sigma))
                IN  /\ d.kind = "float"
                    /\ ret.kind = "float"
                    /\ FLe(d.x, ret.x)

\* the pair calibrate_asset_parameters handed to calibrate_with_validation
InnerPair ==
    IF solver.status = "returned"
    THEN AcceptanceGate(ToFloat(call.E), solver.x[1], solver.x[2], solver.ier)
    ELSE Absent

\* both recomputed relative errors of the inner pair are at most 1%
InnerErrorsWithinTolerance ==
    LET err == ValidationErrors(call.E, call.sigma_E, call.D, call.T, call.r,
                                InnerPair.V, InnerPair.sigma_V)
    IN  FLe(err[1], Frac(1, 100)) /\ FLe(err[2], Frac(1, 100))

\* C16: calibrate_with_validation never raises; success is True exactly when
\* the calibration returned a pair and both recomputed relative errors are at
\* most 1%; then V, sigma_V are that pair; otherwise V and sigma_V are None
\* and the message is a non-empty diagnostic.
C16_ValidationOutcome ==
    (call.op = "calibrate_with_validation" /\ pc = "idle") =>
        /\ ret.kind = "dict"
        /\ ret.success <=> (InnerPair.kind = "pair" /\ InnerErrorsWithinTolerance)
        /\ ret.success => (ret.V = InnerPair.V /\ ret.sigma_V = InnerPair.sigma_V)
        /\ ~ret.success => (ret.V = None /\ ret.sigma_V = None /\ ret.message # "")

IsNull(x) == IsNaN(x)

\* C20: the driver has stored exactly one record per row it has processed,
\* in row order; a record with success = False has V, sigma_V, DD and PD all
\* null; a record with success = True has V and sigma_V non-null, equal to the
\* gate-accepted point of its row's solve, and DD and PD non-null.
C20_OneRecordPerRowFlagAgrees ==
    /\ \A i \in 1..Len(results) :
          LET rec == results[i]
          IN  /\ rec.date = i
              /\ ~rec.success => (/\ IsNull(rec.V) /\ IsNull(rec.sigma_V)
                                  /\ IsNull(rec.DD) /\ IsNull(rec.PD))
              /\ rec.success => (/\ ~IsNull(rec.V) /\ ~IsNull(rec.sigma_V)
                                 /\ ~IsNull(rec.DD) /\ ~IsNull(rec.PD))
    /\ (call.caller = "driver" /\ pc = "idle") =>
          /\ results # <<>>
          /\ results[Len(results)].E = call.E
          /\ results[Len(results)].success =>
                /\ solver.status = "returned"
                /\ results[Len(results)].V = solver.x[1]
                /\ results[Len(results)].sigma_V = solver.x[2]

\* C25: during a solve, every candidate with V <= 0 or sigma_V <= 0 gets the
\* constant penalty residual, and the option-pricing formulas are evaluated
\* only at candidates with neither V <= 0 nor sigma_V <= 0.
C25_PenaltyOutsideFeasibleRegion ==
    (solver.invoked /\ solver.nfev >= 1) =>
        /\ (FLe(solver.x[1], Zero) \/ FLe(solver.x[2], Zero))
              => (solver.fvec = <<Penalty, Penalty>> /\ ~solver.priced)
        /\ solver.priced => ~(FLe(solver.x[1], Zero) \/ FLe(solver.x[2], Zero))

\* C25 witness: the solver tried a candidate with V = 0 and a positive
\* volatility and was handed the penalty pair.
C25_Witness ==
    /\ pc = "solving"
    /\ solver.nfev >= 1
    /\ solver.x[1] = Zero
    /\ FGt(solver.x[2], Zero)
    /\ solver.fvec = <<Penalty, Penalty>>
    /\ ~solver.priced

\* the relative error |black_scholes_call(V, D, T, r, sigma_V) - E| / E of a
\* stored record is at most 1%
RecordPricesEquity(rec) ==
    FLe(RelError(black_scholes_call(TRUE, rec.V, rec.D, DriverT, rec.r, rec.sigma_V),
                 rec.E),
        Frac(1, 100))

C27_SameDebtPerFirmDay ==
    call.op = "firm_debt_daily" => ret.naive = ret.improved

\* the second pass has run over the frame call.df and produced ret.df
Smoothed == call.op = "smoothing" /\ ret.kind = "frame"

IsSuccess(rec) == rec.success

\* C21: after the smoothing pass every failed record still has PD_smoothed
\* null, every successful record has a non-null PD_smoothed, and the smoothed
\* values are the same as if the failed records had been removed from the
\* frame.
C21_OnlySuccessfulRowsSmoothed ==
    Smoothed =>
        /\ \A i \in 1..Len(ret.df) :
              /\ ~ret.df[i].success => IsNull(ret.df[i].PD_smoothed)
              /\ ret.df[i].success => ~IsNull(ret.df[i].PD_smoothed)
        /\ SelectSeq(ret.df, IsSuccess)
              = SmoothingPass(SelectSeq(call.df, IsSuccess), Firms, Len(Firms),
                              SMOOTHING_ALPHA)

\* the successful PD_raw values of a firm at dates up to t, in date order
History(df, firm_id, t) ==
    RawPds(df, SortByDate(df, {i \in 1..Len(df) :
                                  /\ df[i].firm_id = firm_id
                                  /\ df[i].success
                                  /\ df[i].date <= t}))

\* the last value of the smoothing of a series
LastSmoothed(vals) == EwmMean(vals, SMOOTHING_ALPHA)[Len(vals)]

\* C22: PD_smoothed of firm f at date t is a function of f's successful
\* PD_raw values at dates <= t taken in date order, and of nothing else: not
\* of the order of the rows, of f's later rows or of the rows of other firms;
\* at a firm's first successful date it is PD_raw.
C22_DependsOnOwnPastOnly ==
    Smoothed =>
        \A i \in 1..Len(call.df) :
            call.df[i].success =>
                /\ ret.df[i].PD_smoothed
                      = LastSmoothed(History(call.df, call.df[i].firm_id, call.df[i].date))
                /\ Len(History(call.df, call.df[i].firm_id, call.df[i].date)) = 1
                      => ret.df[i].PD_smoothed = call.df[i].PD_raw

\* C22 witness: a firm has successful rows stored out of date order, with a
\* later raw value that differs, and a second firm has a successful row too.
C22_Witness ==
    /\ Smoothed
    /\ \E i, j \in 1..Len(call.df) :
          /\ i < j
          /\ call.df[i].firm_id = 1 /\ call.df[j].firm_id = 1
          /\ call.df[i].success /\ call.df[j].success
          /\ call.df[i].date > call.df[j].date
          /\ ~IsNaN(call.df[i].PD_raw) /\ ~IsNaN(call.df[j].PD_raw)
          /\ call.df[i].PD_raw # call.df[j].PD_raw
          /\ ret.df[j].PD_smoothed = call.df[j].PD_raw
          /\ ret.df[i].PD_smoothed # call.df[i].PD_raw
    /\ \E k \in 1..Len(call.df) : call.df[k].firm_id = 2 /\ call.df[k].success

\* smoothing parameters in (0, 1]
SmoothingAlphas == {SMOOTHING_ALPHA, Frac(1, 2), One}

\* every successful row of the firm has the same PD_raw, a number
ConstantRaw(df, firm_id) ==
    /\ FirmIndices(df, firm_id) # <<>>
    /\ \A i, j \in 1..Len(df) :
          (/\ df[i].firm_id = firm_id /\ df[i].success
           /\ df[j].firm_id = firm_id /\ df[j].success)
             => (df[i].PD_raw = df[j].PD_raw /\ ~IsNaN(df[i].PD_raw))

\* C23: when a firm's PD_raw is the same constant at every successful row,
\* PD_smoothed is that constant at every one of those rows, in the pass as run
\* and for every smoothing parameter alpha in (0, 1].
C23_ConstantInputUnchanged ==
    Smoothed =>
        \A k \in 1..Len(Firms) :
            ConstantRaw(call.df, Firms[k]) =>
                /\ \A i \in 1..Len(call.df) :
                      (call.df[i].firm_id = Firms[k] /\ call.df[i].success)
                         => ret.df[i].PD_smoothed = call.df[i].PD_raw
                /\ \A alpha \in SmoothingAlphas :
                      \A i \in 1..Len(call.df) :
                          (call.df[i].firm_id = Firms[k] /\ call.df[i].success)
                             => SmoothingPass(call.df, Firms, Len(Firms), alpha)[i].PD_smoothed
                                   = call.df[i].PD_raw

\* C23 witness: a firm with a constant PD_raw over all its rows, each of them
\* successful, and PD_smoothed equal to it at the last one.
C23_Witness ==
    /\ Smoothed
    /\ ConstantRaw(call.df, 1)
    /\ Len(FirmIndices(call.df, 1)) = MaxSeries
    /\ \A i \in 1..Len(call.df) :
          call.df[i].firm_id = 1 => ret.df[i].PD_smoothed = call.df[i].PD_raw

\* a ** n for a whole n >= 0
RECURSIVE FPowN(_, _)
FPowN(a, n) == IF n = 0 THEN One ELSE FMul(a, FPowN(a, n - 1))

\* sum over j in 1..m of (1 - alpha)^(i - j) * vals[j]
RECURSIVE WeightedSum(_, _, _, _)
WeightedSum(vals, alpha, i, m) ==
    IF m = 0
    THEN Zero
    ELSE FAdd(WeightedSum(vals, alpha, i, m - 1),
              FMul(FPowN(FSub(One, alpha), i - m), vals[m]))

\* sum over j in 1..m of (1 - alpha)^(i - j)
RECURSIVE WeightTotal(_, _, _)
WeightTotal(alpha, i, m) ==
    IF m = 0
    THEN Zero
    ELSE FAdd(WeightTotal(alpha, i, m - 1), FPowN(FSub(One, alpha), i - m))

\* the normalized weighted average of vals[1..i]
WeightedAverage(vals, alpha, i) ==
    NpDiv(WeightedSum(vals, alpha, i, i), WeightTotal(alpha, i, i))

\* alpha * x + (1 - alpha) * prev
PlainRecursion(x, prev, alpha) ==
    FAdd(FMul(alpha, x), FMul(FSub(One, alpha), prev))

\* rounding allowed between two ways of computing one average
AverageTolerance == Frac(1, 1000)

SameAverage(a, b) ==
    IF IsNaN(a) \/ IsNaN(b)
    THEN IsNaN(a) /\ IsNaN(b)
    ELSE FLe(FAbs(FSub(a, b)), AverageTolerance)

\* the successful rows of one firm, in date order, hold the weighted averages
\* of their PD_raw values and not the values of the plain recursion
FirmIsWeightedAverage(before, after, firm_indices, alpha) ==
    \A i \in 1..Len(firm_indices) :
        /\ SameAverage(after[firm_indices[i]].PD_smoothed,
                       WeightedAverage(RawPds(before, firm_indices), alpha, i))
        /\ (/\ i >= 2
            /\ ~IsNaN(before[firm_indices[i]].PD_raw)
            /\ ~IsNaN(after[firm_indices[i - 1]].PD_smoothed)
            /\ before[firm_indices[i]].PD_raw # after[firm_indices[i - 1]].PD_smoothed)
              => ~SameAverage(after[firm_indices[i]].PD_smoothed,
                              PlainRecursion(before[firm_indices[i]].PD_raw,
                                             after[firm_indices[i - 1]].PD_smoothed,
                                             alpha))

NoNaNRaw(df) == \A i \in 1..Len(df) : df[i].success => ~IsNaN(df[i].PD_raw)

\* C26: the second pass changes only the PD_smoothed field of successful
\* records: the frame keeps its records, in their order, every other field of
\* every record is as it was created, and a failed record is left whole.
C26_OnlySmoothedFieldChanges ==
    Smoothed =>
        /\ Len(ret.df) = Len(call.df)
        /\ \A i \in 1..Len(call.df) :
              /\ ret.df[i] = [call.df[i] EXCEPT !.PD_smoothed = ret.df[i].PD_smoothed]
              /\ ~call.df[i].success => ret.df[i] = call.df[i]

\* C26 witness: a frame with a failed record between successful ones, stored
\* out of date order, in which the pass has set a PD_smoothed that differs from
\* the record's PD_raw.
C26_Witness ==
    /\ Smoothed
    /\ Len(call.df) = MaxSeries
    /\ ~call.df[2].success
    /\ call.df[1].success /\ call.df[3].success
    /\ call.df[1].firm_id = call.df[3].firm_id
    /\ call.df[1].date > call.df[3].date
    /\ ~IsNaN(ret.df[1].PD_smoothed)
    /\ ret.df[1].PD_smoothed # call.df[1].PD_raw
    /\ ret.df # call.df

\* x lies between two of the numbers of vals
WithinRange(x, vals) ==
    \E j, k \in 1..Len(vals) :
        /\ ~IsNaN(vals[j]) /\ ~IsNaN(vals[k])
        /\ FLe(vals[j], x) /\ FLe(x, vals[k])

\* every number of vals is in [0, 1]
UnitRange(vals) ==
    \A j \in 1..Len(vals) : ~IsNaN(vals[j]) => (FLe(Zero, vals[j]) /\ FLe(vals[j], One))

\* C29: every PD_smoothed value (a number, not null) lies between the minimum
\* and the maximum of the PD_raw values of the same firm's successful rows up to
\* and including its date, and in [0, 1] when those are in [0, 1].
C29_SmoothedWithinRawRange ==
    Smoothed =>
        \A i \in 1..Len(ret.df) :
            ~IsNull(ret.df[i].PD_smoothed) =>
                /\ WithinRange(ret.df[i].PD_smoothed,
                               History(call.df, call.df[i].firm_id, call.df[i].date))
                /\ UnitRange(History(call.df, call.df[i].firm_id, call.df[i].date))
                      => (/\ FLe(Zero, ret.df[i].PD_smoothed)
                          /\ FLe(ret.df[i].PD_smoothed, One))

\* C29 witness: a PD_smoothed strictly inside the range of the firm's raw
\* values so far, which differ, with a NaN raw value among them.
C29_Witness ==
    /\ Smoothed
    /\ \E i \in 1..Len(ret.df) :
          /\ ~IsNull(ret.df[i].PD_smoothed)
          /\ \E j, k, n \in 1..Len(History(call.df, call.df[i].firm_id, call.df[i].date)) :
                /\ FLt(History(call.df, call.df[i].firm_id, call.df[i].date)[j],
                       ret.df[i].PD_smoothed)
                /\ FLt(ret.df[i].PD_smoothed,
                       History(call.df, call.df[i].firm_id, call.df[i].date)[k])
                /\ IsNaN(History(call.df, call.df[i].firm_id, call.df[i].date)[n])

====
